---- MODULE Spec2Model ----
(***************************************************************************)
(* Edutera RAG V3: the content segmenter and the batched upload            *)
(* (upload.py, parse_markdown and upload_data), the                        *)
(* retrieval-to-validated-generation pipeline (main.py,                    *)
(* generate_questions_safe and generate_initial_quiz; schemas.py) and the  *)
(* prompt builders (main.py, get_quiz_prompt and answer_student_question). *)
(*                                                                         *)
(* Text is modelled as a sequence of one-character strings, so that        *)
(* strip, startswith, replace, join and split are computed character by    *)
(* character as Python computes them.                                      *)
(***************************************************************************)
EXTENDS Integers, Sequences, FiniteSets, TLC

VARIABLES
    \* ---- parse_markdown (upload.py) ----
    lines,              \* the raw lines of the file consumed by the loop so far
    current_unit,
    current_lesson,
    current_skill_id,
    current_skill_name,
    current_text,       \* list of lines of the chunk under construction
    chunks,             \* list of emitted chunks
    seg_pc,             \* "scan" (inside the for loop) | "done" (returned)
    \* ---- quiz endpoints (main.py) ----
    endpoint,           \* "none" | "generate-initial" | "generate-lesson"
    request,            \* the InitialQuizRequest being served
    quiz_pc,            \* "idle" | "lesson" | "generate" | "returned" | "error"
    lesson_idx,         \* position of the loop over request.lessons
    diff_idx,           \* position of the loop over the difficulties
    skill_data,         \* the skill selected for the current lesson
    all_questions,
    gen,                \* the generate_questions_safe call in progress
    prompts,            \* the prompts generate_questions_safe was called with
    response,           \* what the endpoint returned or raised
    \* ---- prompt building: get_quiz_prompt, answer_student_question ----
    tutor_pc,           \* "idle" | "query" | "call" | "returned" | "error" | "built"
    chat_request,       \* the ChatRequest being served
    context,            \* answer_student_question's local of that name
    messages,           \* the messages sent to the oracle
    chat_response,      \* what the tutor endpoint returned or raised
    prompt_context,    \* the context text handed to get_quiz_prompt
    quiz_prompt,        \* the prompt get_quiz_prompt built from it
    \* ---- upload_data (upload.py) ----
    up_pc,              \* "idle" | "collect" | "batch" | "done"
    up_chunks,          \* upload_data's local chunks
    up_ids,             \* upload_data's local ids
    up_documents,       \* upload_data's local documents
    up_metadatas,       \* upload_data's local metadatas
    total_batches,
    batch_i,            \* the variable i of the batch loop
    added               \* the calls collection.add has received, in order

segVars == <<lines, current_unit, current_lesson, current_skill_id,
             current_skill_name, current_text, chunks, seg_pc>>

quizVars == <<endpoint, request, quiz_pc, lesson_idx, diff_idx, skill_data,
              all_questions, gen, prompts, response>>

promptVars == <<tutor_pc, chat_request, context, messages, chat_response,
                prompt_context, quiz_prompt>>

uploadVars == <<up_pc, up_chunks, up_ids, up_documents, up_metadatas,
                total_batches, batch_i, added>>

vars == <<lines, current_unit, current_lesson, current_skill_id,
          current_skill_name, current_text, chunks, seg_pc,
          endpoint, request, quiz_pc, lesson_idx, diff_idx, skill_data,
          all_questions, gen, prompts, response,
          tutor_pc, chat_request, context, messages, chat_response,
          prompt_context, quiz_prompt,
          up_pc, up_chunks, up_ids, up_documents, up_metadatas,
          total_batches, batch_i, added>>

(***************************************************************************)
(* Bounds                                                                  *)
(***************************************************************************)
\* Longest document (number of lines) the segmenter is run on.
MaxLines == 4

\* Longest lesson list of a quiz request.
MaxLessons == 2

\* Longest conversation history of a chat request.
MaxHistory == 4

\* Largest number of chunks upload_data is run on.
MaxChunks == 21

(***************************************************************************)
(* Text helpers (Python str methods)                                       *)
(***************************************************************************)
NL == "\n"

\* Characters removed by str.strip() that occur in the modelled documents.
Whitespace == {" ", "\n"}

\* Python: s.startswith(p)
StartsWith(s, p) == Len(s) >= Len(p) /\ SubSeq(s, 1, Len(p)) = p

RECURSIVE LStrip(_)
LStrip(s) ==
    IF s = <<>> THEN <<>>
    ELSE IF Head(s) \in Whitespace THEN LStrip(Tail(s)) ELSE s

RECURSIVE RStrip(_)
RStrip(s) ==
    IF s = <<>> THEN <<>>
    ELSE IF s[Len(s)] \in Whitespace THEN RStrip(SubSeq(s, 1, Len(s) - 1)) ELSE s

\* Python: s.strip()
Strip(s) == RStrip(LStrip(s))

\* Python: s.replace(old, new), old non-empty: non-overlapping, left to right
RECURSIVE Replace(_, _, _)
Replace(s, old, new) ==
    IF s = <<>> THEN <<>>
    ELSE IF StartsWith(s, old)
         THEN new \o Replace(SubSeq(s, Len(old) + 1, Len(s)), old, new)
         ELSE <<Head(s)>> \o Replace(Tail(s), old, new)

\* Python: sep.join(parts), sep a single character
RECURSIVE Join(_, _)
Join(parts, sep) ==
    IF parts = <<>> THEN <<>>
    ELSE IF Len(parts) = 1 THEN parts[1]
    ELSE parts[1] \o <<sep>> \o Join(Tail(parts), sep)

(***************************************************************************)
(* parse_markdown                                                          *)
(***************************************************************************)
HASH_SP == <<"#", " ">>
HASH == <<"#">>
SENTINEL == <<"$", "$", "$", "$">>
SUBHEADING == <<"#", "#", " ">>
DefaultSkillName ==
    <<"I", "n", "t", "r", "o", "d", "u", "c", "t", "i", "o", "n">>

\* The raw lines f.readlines() may hand to the loop: each keeps its "\n".
DocLines ==
    { <<"\n">>,                                        \* empty line
      <<" ", "\n">>,                                   \* whitespace only
      <<"x", "\n">>,                                   \* plain text
      <<" ", "y", " ", "\n">>,                         \* text, padded
      <<"#", " ", "A", "\n">>,                         \* lesson heading
      <<" ", "#", " ", "#", "B", "\n">>,               \* indented heading, inner #
      <<"#", "C", "\n">>,                              \* no space: plain text
      <<"#", " ", "\n">>,                              \* "# " strips to "#": text
      <<"$", "$", "$", "$", " ", "S", "\n">>,          \* skill boundary
      <<"$", "$", "$", "$", "\n">>,                    \* bare sentinel
      <<"$", "$", "$", "T", "\n">>,                    \* three $: plain text
      <<"z", "$", "$", "$", "$", "\n">> }              \* sentinel inside text

\* upload.py:38
IsLessonLine(line) == StartsWith(line, HASH_SP)

\* upload.py:63 (reached only when the line is no lesson heading)
IsSkillLine(line) == StartsWith(line, SENTINEL)

\* Mutant: the chunk is tagged after the skill counter has moved on.
MakeChunkPostUpdate(text_lines, unit, lesson, skill, name) ==
    [ text |-> Join(text_lines, NL),
      metadata |-> [ unit_id |-> unit,
                     lesson_id |-> lesson,
                     skill_id |-> skill + 1,
                     skill_name |-> name,
                     chunk_type |-> "content" ] ]

\* The chunk dict appended at upload.py:41-50, 66-75 and 92-101.
MakeChunk(text_lines, unit, lesson, skill, name) ==
    [ text |-> Join(text_lines, NL),
      metadata |-> [ unit_id |-> unit,
                     lesson_id |-> lesson,
                     skill_id |-> skill,
                     skill_name |-> name,
                     chunk_type |-> "content" ] ]

\* Mutant: the flush is not guarded by the buffer being non-empty.
AlwaysFlush(buf) == TRUE

\* "if current_text:" guarding every append of a chunk
ShouldFlush(buf) == buf # <<>>

\* chunks after the "save previous chunk" block
Flushed ==
    IF ShouldFlush(current_text)
    THEN Append(chunks, MakeChunk(current_text, current_unit, current_lesson,
                                  current_skill_id, current_skill_name))
    ELSE chunks

\* Mutant: a heading does not open a new lesson.
LessonKept(l) == l

\* upload.py:54
LessonAfterHeading(l) == l + 1

\* Mutant: skill numbering restarts with every lesson.
SkillRestart(s) == 1

\* upload.py:55
SkillAfterHeading(s) == s + 1

\* Mutant: a skill boundary does not open a new skill id.
SkillKept(s) == s

\* upload.py:79
SkillAfterSentinel(s) == s + 1

\* upload.py:57
HeadingName(line) == Strip(Replace(line, HASH, <<>>))

\* upload.py:81
SentinelName(line) == Strip(Replace(line, SENTINEL, <<>>))

\* Mutant: the sub-heading is rebuilt from the cleaned skill name.
SentinelTextFromName(line) == SUBHEADING \o SentinelName(line)

\* upload.py:83
SentinelText(line) == Replace(line, SENTINEL, SUBHEADING)

\* upload.py:59
HeadingText(line) == line

\* upload.py:88
TextLine(line) == line

\* Mutant: the buffer left at the end of the input is not saved.
FinalChunksUnsaved == chunks

\* upload.py:91-101: the chunk list returned, after saving the last chunk
FinalChunks == Flushed

SegStart ==
    /\ lines = <<>>
    /\ current_unit = 1
    /\ current_lesson = 0
    /\ current_skill_id = 0
    /\ current_skill_name = DefaultSkillName
    /\ current_text = <<>>
    /\ chunks = <<>>
    /\ seg_pc = "scan"

\* One loop iteration on a "# " line (upload.py:35-60).
LessonLine(raw) ==
    LET line == Strip(raw) IN
    /\ seg_pc = "scan"
    /\ Len(lines) < MaxLines
    /\ IsLessonLine(line)
    /\ lines' = Append(lines, raw)
    /\ chunks' = Flushed
    /\ current_lesson' = LessonAfterHeading(current_lesson)
    /\ current_skill_id' = SkillAfterHeading(current_skill_id)
    /\ current_skill_name' = HeadingName(line)
    /\ current_text' = <<HeadingText(line)>>
    /\ UNCHANGED <<current_unit, seg_pc>>
    /\ UNCHANGED <<quizVars, promptVars, uploadVars>>

\* One loop iteration on a "$$$$" line (upload.py:35, 63-84).
SkillLine(raw) ==
    LET line == Strip(raw) IN
    /\ seg_pc = "scan"
    /\ Len(lines) < MaxLines
    /\ ~IsLessonLine(line)
    /\ IsSkillLine(line)
    /\ lines' = Append(lines, raw)
    /\ chunks' = Flushed
    /\ current_skill_id' = SkillAfterSentinel(current_skill_id)
    /\ current_skill_name' = SentinelName(line)
    /\ current_text' = <<SentinelText(line)>>
    /\ UNCHANGED <<current_unit, current_lesson, seg_pc>>
    /\ UNCHANGED <<quizVars, promptVars, uploadVars>>

\* One loop iteration on any other line (upload.py:35, 87-88).
OtherLine(raw) ==
    LET line == Strip(raw) IN
    /\ seg_pc = "scan"
    /\ Len(lines) < MaxLines
    /\ ~IsLessonLine(line)
    /\ ~IsSkillLine(line)
    /\ lines' = Append(lines, raw)
    /\ current_text' = IF line # <<>> THEN Append(current_text, TextLine(line))
                       ELSE current_text
    /\ UNCHANGED <<current_unit, current_lesson, current_skill_id,
                   current_skill_name, chunks, seg_pc>>
    /\ UNCHANGED <<quizVars, promptVars, uploadVars>>

\* End of the loop: save the last chunk and return (upload.py:91-103).
EndOfInput ==
    /\ seg_pc = "scan"
    /\ chunks' = FinalChunks
    /\ seg_pc' = "done"
    /\ UNCHANGED <<lines, current_unit, current_lesson, current_skill_id,
                   current_skill_name, current_text>>
    /\ UNCHANGED <<quizVars, promptVars, uploadVars>>

SegNext ==
    \/ \E raw \in DocLines : LessonLine(raw)
    \/ \E raw \in DocLines : SkillLine(raw)
    \/ \E raw \in DocLines : OtherLine(raw)
    \/ EndOfInput

(***************************************************************************)
(* JSON values, as json.loads returns them                                 *)
(***************************************************************************)
JStr(x) == [t |-> "str", s |-> x]
JInt(x) == [t |-> "int", i |-> x]
JArr(x) == [t |-> "arr", a |-> x]
JObj(x) == [t |-> "obj", o |-> x]
JNull == [t |-> "null"]

(***************************************************************************)
(* schemas.py                                                              *)
(***************************************************************************)
\* schemas.py:6-9
QuestionType == {"multiple_choice", "true_false", "fill_in_blank"}

\* schemas.py:43-50
StrFields == {"question_text", "hint", "bottom_hint"}
IntFields == {"correct_answer", "difficulty", "skill_id"}
QuestionFields == StrFields \cup IntFields \cup {"options", "type"}

\* The check pydantic makes of one field of QuestionGenerated(**q): present,
\* and of the annotated type (schemas.py:43-50).
FieldOk(o, f) ==
    /\ f \in DOMAIN o
    /\ CASE f \in StrFields -> o[f].t = "str"
         [] f \in IntFields -> o[f].t = "int"
         [] f = "options" ->
                /\ o[f].t = "arr"
                /\ \A k \in 1..Len(o[f].a) : o[f].a[k].t = "str"
         [] f = "type" -> o[f].t = "str" /\ o[f].s \in QuestionType

\* QuestionGenerated(**q) raises no ValidationError
Validates(q) == \A f \in QuestionFields : FieldOk(q.o, f)

\* Mutant: a negative index is kept as it is.
validate_index_kept(v) == v

\* schemas.py:52-56
validate_index(v) == IF v < 0 THEN 0 ELSE v

\* The model instance QuestionGenerated(**q) builds from a raw item that
\* validates.
QuestionGenerated(q) ==
    [ question_text |-> q.o.question_text.s,
      correct_answer |-> validate_index(q.o.correct_answer.i),
      options |-> [k \in 1..Len(q.o.options.a) |-> q.o.options.a[k].s],
      hint |-> q.o.hint.s,
      bottom_hint |-> q.o.bottom_hint.s,
      difficulty |-> q.o.difficulty.i,
      type |-> q.o.type.s,
      skill_id |-> q.o.skill_id.i ]

(***************************************************************************)
(* The generation oracle (client.chat.completions.create)                  *)
(***************************************************************************)
ValidRaw ==
    [ question_text |-> JStr("q"),
      correct_answer |-> JInt(1),
      options |-> JArr(<<JStr("a"), JStr("b"), JStr("c"), JStr("d")>>),
      hint |-> JStr("h"),
      bottom_hint |-> JStr("r"),
      difficulty |-> JInt(2),
      type |-> JStr("true_false"),
      skill_id |-> JInt(1) ]

RawWith(f, v) == JObj([ValidRaw EXCEPT ![f] = v])
RawWithout(f) == JObj([g \in QuestionFields \ {f} |-> ValidRaw[g]])

\* Raw items the oracle may put in "questions".
ItemValid == JObj(ValidRaw)
ItemTwoFields == JObj([question_text |-> JStr("bad"), correct_answer |-> JStr("X")])
ItemNoHint == RawWithout("hint")
ItemEssay == RawWith("type", JStr("essay"))
ItemOptionsOfInts == RawWith("options", JArr(<<JInt(1), JInt(2), JInt(3), JInt(4)>>))
ItemNegative == RawWith("correct_answer", JInt(-5))
ItemIndexSeven == RawWith("correct_answer", JInt(7))
ItemTwoOptions == RawWith("options", JArr(<<JStr("a"), JStr("b")>>))
ItemDifficultyNine == RawWith("difficulty", JInt(9))
ItemNotObject == JStr("oops")

Content(data) == [kind |-> "content", is_json |-> TRUE, data |-> data]
Questions(items) == Content(JObj([questions |-> JArr(items)]))

\* What one oracle invocation may do: raise, or return a message content.
OracleResponses ==
    << [kind |-> "transport_error", is_json |-> FALSE, data |-> JNull],
       [kind |-> "content", is_json |-> FALSE, data |-> JNull],
       Content(JObj([note |-> JStr("n")])),
       Questions(<<ItemValid, ItemTwoFields>>),
       Questions(<<ItemNoHint, ItemEssay, ItemOptionsOfInts>>),
       Questions(<<ItemNegative, ItemIndexSeven, ItemTwoOptions,
                   ItemDifficultyNine>>),
       Questions(<<ItemValid, ItemNotObject>>),
       Content(JObj([questions |-> JNull])) >>

(***************************************************************************)
(* generate_questions_safe (main.py:81-101)                                *)
(***************************************************************************)
\* main.py:81, stop_after_attempt(3)
MaxAttempts == 3

\* main.py:93: data.get("questions", [])
QuestionsOf(data) ==
    IF "questions" \in DOMAIN data.o THEN data.o.questions ELSE JArr(<<>>)

\* main.py:92-99: the loop that keeps the items that validate
RECURSIVE ValidQuestions(_)
ValidQuestions(items) ==
    IF items = <<>> THEN <<>>
    ELSE (IF Validates(Head(items)) THEN <<QuestionGenerated(Head(items))>>
          ELSE <<>>) \o ValidQuestions(Tail(items))

Returns(v) == [ok |-> TRUE, value |-> v, error |-> "none"]
Raises(e) == [ok |-> FALSE, value |-> <<>>, error |-> e]

\* One execution of the function body (main.py:83-101) on what the oracle
\* did: the list returned, or the exception raised.  A "questions" value
\* that is no list is null here, which the for loop cannot iterate.
AttemptOutcome(r) ==
    IF r.kind = "transport_error" THEN Raises("APIConnectionError")
    ELSE IF ~r.is_json THEN Raises("JSONDecodeError")
    ELSE IF r.data.t # "obj" THEN Raises("AttributeError")
    ELSE LET qs == QuestionsOf(r.data) IN
         IF qs.t # "arr" THEN Raises("TypeError")
         ELSE IF \E k \in 1..Len(qs.a) : qs.a[k].t # "obj"
              THEN Raises("TypeError")
              ELSE Returns(ValidQuestions(qs.a))

\* Mutant: one more attempt is made before giving up.
StopLater(attempt_number) == attempt_number >= MaxAttempts + 1

\* main.py:81: stop_after_attempt(3)
Stop(attempt_number) == attempt_number >= MaxAttempts

NoFailure == [type |-> "none", cause |-> "none"]

\* Mutant: the first attempt's failure is the one carried.
RetryFailureFirst(errors) == [type |-> "RetryError", cause |-> errors[1]]

\* main.py:81: retry(...) without reraise raises RetryError, which carries
\* the last attempt.
RetryFailure(errors) == [type |-> "RetryError", cause |-> errors[Len(errors)]]

IdleGen ==
    [status |-> "idle", attempt |-> 0, errors |-> <<>>, last_response |-> 0,
     result |-> <<>>, error |-> NoFailure]

FreshGen == [IdleGen EXCEPT !.status = "running"]

(***************************************************************************)
(* The vector store (collection.get)                                       *)
(***************************************************************************)
LessonIds == {1, 2, 3}

Meta(lesson, skill, name) ==
    [unit_id |-> 1, lesson_id |-> lesson, skill_id |-> skill,
     skill_name |-> name, chunk_type |-> "content"]

NoResults == [ids |-> <<>>, documents |-> <<>>, metadatas |-> <<>>]

\* collection.get(where={"lesson_id": lesson_id}): lesson 1 has three chunks
\* of two skills, the first and the third of the same skill under two names;
\* lesson 2 has none; lesson 3 has two chunks of one skill.
StoreGet(lesson_id) ==
    CASE lesson_id = 1 ->
             [ids |-> <<"cid_0", "cid_1", "cid_2">>,
              documents |-> <<<<"a">>, <<"b", "b">>, <<"c">>>>,
              metadatas |-> <<Meta(1, 4, "Intro"), Meta(1, 5, "Skill"),
                              Meta(1, 4, "Recap")>>]
      [] lesson_id = 3 ->
             [ids |-> <<"cid_3", "cid_4">>,
              documents |-> <<<<"d", "d">>, <<"e">>>>,
              metadatas |-> <<Meta(3, 7, "Loops"), Meta(3, 7, "Loops")>>]
      [] OTHER -> NoResults

(***************************************************************************)
(* generate_initial_quiz, generate_lesson_quiz (main.py:109-159)           *)
(***************************************************************************)
\* main.py:132
Difficulties == <<"easy", "medium", "hard">>

\* Mutant: each prompt asks for a third of the requested count.
NumQuestionsRequested == request.questions_per_lesson \div 3

\* main.py:136
NumQuestions == 3

\* main.py:46
ContextLimit == 2500

\* schemas.py:16, 22 and a value a caller may send instead
QplValues == {9, 4}

\* Python: s[:n]
Prefix(s, n) == SubSeq(s, 1, IF Len(s) < n THEN Len(s) ELSE n)

\* main.py:38-39
DiffNum(difficulty) ==
    CASE difficulty = "easy" -> 1
      [] difficulty = "medium" -> 2
      [] difficulty = "hard" -> 3
      [] OTHER -> 2

\* main.py:37-78: the parts of the prompt that vary
get_quiz_prompt(content_context, skill_info, num_questions, difficulty) ==
    [ num_questions |-> num_questions,
      difficulty |-> difficulty,
      context |-> Prefix(content_context, ContextLimit),
      skill_id |-> skill_info.skill_id,
      skill_name |-> skill_info.skill_name,
      diff_num |-> DiffNum(difficulty) ]

\* main.py:121-124: one iteration of the grouping loop; skills_map is kept
\* as the list of its entries in insertion order.
SkillsMapAdd(map, doc, meta) ==
    IF \E k \in 1..Len(map) : map[k].skill_id = meta.skill_id
    THEN [k \in 1..Len(map) |->
             IF map[k].skill_id = meta.skill_id
             THEN [map[k] EXCEPT !.content = @ \o <<NL>> \o doc]
             ELSE map[k]]
    ELSE Append(map, [skill_id |-> meta.skill_id, name |-> meta.skill_name,
                      content |-> <<NL>> \o doc])

\* main.py:119-124
RECURSIVE SkillsMap(_, _, _)
SkillsMap(documents, metadatas, map) ==
    IF documents = <<>> \/ metadatas = <<>> THEN map
    ELSE SkillsMap(Tail(documents), Tail(metadatas),
                   SkillsMapAdd(map, Head(documents), Head(metadatas)))

\* Mutant: the skill seen last is the target.
TargetSkillLast(map) == map[Len(map)]

\* main.py:128-129
TargetSkill(map) == map[1]

NoSkill == [skill_id |-> 0, name |-> "", content |-> <<>>]

NoRequest == [class_id |-> 0, unit_id |-> 0, lessons |-> <<>>,
              questions_per_lesson |-> 0]

NoResponse == [kind |-> "none", success |-> FALSE, questions |-> <<>>,
               total_questions |-> 0]

\* The prompt built for difficulty d of the current lesson (main.py:133-138).
PromptFor(skill, d) ==
    get_quiz_prompt(skill.content,
                    [skill_id |-> skill.skill_id, skill_name |-> skill.name],
                    NumQuestions, Difficulties[d])

\* Where the loops stand after the pair (lesson l, difficulty d).
NextPair(l, d) ==
    IF d < Len(Difficulties)
    THEN [pc |-> "generate", lesson |-> l, diff |-> d + 1]
    ELSE [pc |-> "lesson", lesson |-> l + 1, diff |-> 0]

\* Mutant: the new questions are put in front of the accumulated ones.
ExtendFront(questions, new_qs) == new_qs \o questions

\* main.py:141: all_questions.extend(new_qs)
Extend(questions, new_qs) == questions \o new_qs

\* main.py:140-141: after all_questions.extend(new_qs)
AfterExtend(l, d) == NextPair(l, d)

\* Mutant: a failed difficulty ends the lesson.
AfterCatchBreak(l, d) == [pc |-> "lesson", lesson |-> l + 1, diff |-> 0]

\* main.py:142-143: except Exception: pass
AfterCatch(l, d) == NextPair(l, d)

\* Mutant: the count is the number of questions asked for.
TotalRequested(questions) ==
    request.questions_per_lesson * Len(request.lessons)

\* main.py:148
TotalQuestions(questions) == Len(questions)

\* main.py:145-149
QuizResponse(questions) ==
    [kind |-> "QuizResponse", success |-> TRUE, questions |-> questions,
     total_questions |-> TotalQuestions(questions)]

\* An exception leaving the endpoint.
ErrorResponse ==
    [kind |-> "error", success |-> FALSE, questions |-> <<>>,
     total_questions |-> 0]

QuizStart ==
    /\ endpoint = "none"
    /\ request = NoRequest
    /\ quiz_pc = "idle"
    /\ lesson_idx = 0
    /\ diff_idx = 0
    /\ skill_data = NoSkill
    /\ all_questions = <<>>
    /\ gen = IdleGen
    /\ prompts = <<>>
    /\ response = NoResponse

\* Lesson lists a request may carry: up to MaxLessons lessons, none twice.
LessonLists ==
    { ls \in UNION {[1..n -> LessonIds] : n \in 0..MaxLessons} :
        \A i, j \in DOMAIN ls : i # j => ls[i] # ls[j] }

\* POST /rag/quizzes/generate-initial: entry of generate_initial_quiz
\* (main.py:110-113).
ReceiveInitial(ls, qpl) ==
    /\ quiz_pc = "idle"
    /\ endpoint' = "generate-initial"
    /\ request' = [class_id |-> 1, unit_id |-> 1, lessons |-> ls,
                   questions_per_lesson |-> qpl]
    /\ quiz_pc' = "lesson"
    /\ lesson_idx' = 1
    /\ all_questions' = <<>>
    /\ UNCHANGED <<diff_idx, skill_data, gen, prompts, response>>
    /\ UNCHANGED <<segVars, promptVars, uploadVars>>

\* POST /rag/quizzes/generate-lesson: generate_lesson_quiz builds the
\* one-lesson request and calls generate_initial_quiz (main.py:152-159).
ReceiveLesson(lesson_id, qpl) ==
    /\ quiz_pc = "idle"
    /\ endpoint' = "generate-lesson"
    /\ request' = [class_id |-> 1, unit_id |-> 1, lessons |-> <<lesson_id>>,
                   questions_per_lesson |-> qpl]
    /\ quiz_pc' = "lesson"
    /\ lesson_idx' = 1
    /\ all_questions' = <<>>
    /\ UNCHANGED <<diff_idx, skill_data, gen, prompts, response>>
    /\ UNCHANGED <<segVars, promptVars, uploadVars>>

AtLesson == quiz_pc = "lesson" /\ lesson_idx <= Len(request.lessons)

\* main.py:115: collection.get raises; nothing in generate_initial_quiz
\* catches it.
RetrievalFails ==
    /\ AtLesson
    /\ quiz_pc' = "error"
    /\ response' = ErrorResponse
    /\ UNCHANGED <<endpoint, request, lesson_idx, diff_idx, skill_data,
                   all_questions, gen, prompts>>
    /\ UNCHANGED <<segVars, promptVars, uploadVars>>

\* main.py:115-116: no chunk for the lesson: continue
LessonEmpty ==
    /\ AtLesson
    /\ StoreGet(request.lessons[lesson_idx]).ids = <<>>
    /\ lesson_idx' = lesson_idx + 1
    /\ UNCHANGED <<endpoint, request, quiz_pc, diff_idx, skill_data,
                   all_questions, gen, prompts, response>>
    /\ UNCHANGED <<segVars, promptVars, uploadVars>>

\* main.py:115-140: chunks found: group them by skill, take the first skill,
\* build the "easy" prompt and call generate_questions_safe.
LessonSelected ==
    LET results == StoreGet(request.lessons[lesson_idx])
        map == SkillsMap(results.documents, results.metadatas, <<>>)
    IN /\ AtLesson
       /\ results.ids # <<>>
       /\ map # <<>>
       /\ skill_data' = TargetSkill(map)
       /\ diff_idx' = 1
       /\ quiz_pc' = "generate"
       /\ gen' = FreshGen
       /\ prompts' = Append(prompts, PromptFor(TargetSkill(map), 1))
       /\ UNCHANGED <<endpoint, request, lesson_idx, all_questions, response>>
       /\ UNCHANGED <<segVars, promptVars, uploadVars>>

InAttempt == quiz_pc = "generate" /\ gen.status = "running"

\* One attempt whose body returns (main.py:84-99): the call ends.
AttemptReturns(r) ==
    LET out == AttemptOutcome(OracleResponses[r]) IN
    /\ InAttempt
    /\ out.ok
    /\ gen' = [gen EXCEPT !.status = "returned", !.attempt = @ + 1,
                          !.last_response = r, !.result = out.value]
    /\ UNCHANGED <<endpoint, request, quiz_pc, lesson_idx, diff_idx,
                   skill_data, all_questions, prompts, response>>
    /\ UNCHANGED <<segVars, promptVars, uploadVars>>

\* One attempt whose body raises (main.py:100-101), with attempts left:
\* tenacity waits and calls the body again.
AttemptRetried(r) ==
    LET out == AttemptOutcome(OracleResponses[r]) IN
    /\ InAttempt
    /\ ~out.ok
    /\ ~Stop(gen.attempt + 1)
    /\ gen' = [gen EXCEPT !.attempt = @ + 1, !.last_response = r,
                          !.errors = Append(@, out.error)]
    /\ UNCHANGED <<endpoint, request, quiz_pc, lesson_idx, diff_idx,
                   skill_data, all_questions, prompts, response>>
    /\ UNCHANGED <<segVars, promptVars, uploadVars>>

\* One attempt whose body raises, the last allowed: tenacity raises.
AttemptGivesUp(r) ==
    LET out == AttemptOutcome(OracleResponses[r]) IN
    /\ InAttempt
    /\ ~out.ok
    /\ Stop(gen.attempt + 1)
    /\ gen' = [gen EXCEPT !.status = "raised", !.attempt = @ + 1,
                          !.last_response = r,
                          !.errors = Append(@, out.error),
                          !.error = RetryFailure(Append(gen.errors, out.error))]
    /\ UNCHANGED <<endpoint, request, quiz_pc, lesson_idx, diff_idx,
                   skill_data, all_questions, prompts, response>>
    /\ UNCHANGED <<segVars, promptVars, uploadVars>>

\* The loops move on to pos: the next difficulty (its prompt is built and
\* generate_questions_safe called) or the next lesson.
MoveTo(pos) ==
    /\ quiz_pc' = pos.pc
    /\ lesson_idx' = pos.lesson
    /\ diff_idx' = pos.diff
    /\ IF pos.pc = "generate"
       THEN /\ gen' = FreshGen
            /\ prompts' = Append(prompts, PromptFor(skill_data, pos.diff))
            /\ UNCHANGED skill_data
       ELSE /\ gen' = IdleGen
            /\ skill_data' = NoSkill
            /\ UNCHANGED prompts

\* main.py:140-141: the call returned: extend all_questions, go on.
ExtendQuestions ==
    /\ quiz_pc = "generate"
    /\ gen.status = "returned"
    /\ all_questions' = Extend(all_questions, gen.result)
    /\ MoveTo(AfterExtend(lesson_idx, diff_idx))
    /\ UNCHANGED <<endpoint, request, response>>
    /\ UNCHANGED <<segVars, promptVars, uploadVars>>

\* main.py:142-143: the call raised: pass, go on.
CatchFailure ==
    /\ quiz_pc = "generate"
    /\ gen.status = "raised"
    /\ MoveTo(AfterCatch(lesson_idx, diff_idx))
    /\ UNCHANGED <<endpoint, request, all_questions, response>>
    /\ UNCHANGED <<segVars, promptVars, uploadVars>>

\* main.py:145-149: after the last lesson
ReturnResponse ==
    /\ quiz_pc = "lesson"
    /\ lesson_idx > Len(request.lessons)
    /\ quiz_pc' = "returned"
    /\ response' = QuizResponse(all_questions)
    /\ UNCHANGED <<endpoint, request, lesson_idx, diff_idx, skill_data,
                   all_questions, gen, prompts>>
    /\ UNCHANGED <<segVars, promptVars, uploadVars>>

QuizNext ==
    \/ \E ls \in LessonLists, qpl \in QplValues : ReceiveInitial(ls, qpl)
    \/ \E l \in LessonIds, qpl \in QplValues : ReceiveLesson(l, qpl)
    \/ RetrievalFails
    \/ LessonEmpty
    \/ LessonSelected
    \/ \E r \in DOMAIN OracleResponses : AttemptReturns(r)
    \/ \E r \in DOMAIN OracleResponses : AttemptRetried(r)
    \/ \E r \in DOMAIN OracleResponses : AttemptGivesUp(r)
    \/ ExtendQuestions
    \/ CatchFailure
    \/ ReturnResponse

(***************************************************************************)
(* Prompt building on long contexts: get_quiz_prompt (main.py:37-78) and   *)
(* answer_student_question (main.py:162-203)                               *)
(***************************************************************************)
\* main.py:170
NResults == 3

\* Mutant: the tutor prompt cuts where the quiz prompt does.
TutorLimitOfQuiz == ContextLimit

\* main.py:177, context[:2000]
TutorContextLimit == 2000

\* main.py:187, previous_messages[-3:]
HistoryWindow == 3

\* Lengths of the stored documents: one and two are below both cuts, two of
\* the longer or three of any are above both, one of each is between them.
DocSizes == {900, 1300}

\* A stored document of n characters.
Doc(n) == [i \in 1..n |-> IF n = 900 THEN "a" ELSE "b"]

\* Lists of documents retrieval may return for one query or one lesson.
DocLists == UNION {[1..n -> {Doc(z) : z \in DocSizes}] : n \in 0..NResults}

\* collection.query(...)['documents']: one list per query text, or nothing.
QueryResults == {<<>>} \cup {<<docs>> : docs \in DocLists}

\* main.py:173
NoContext ==
    <<"N", "o", " ", "c", "o", "n", "t", "e", "x", "t", " ",
      "a", "v", "a", "i", "l", "a", "b", "l", "e", ".">>

\* main.py:173
ContextOfResults(documents) ==
    IF documents # <<>> THEN Join(documents[1], NL) ELSE NoContext

\* Entries of previous_messages: dicts that may lack either key.
HistoryMessages ==
    { [role |-> "assistant", content |-> "m"],
      [content |-> "n"],
      [role |-> "user"] }

Histories == UNION {[1..n -> HistoryMessages] : n \in 0..MaxHistory}

\* Python: s[-n:]
Suffix(s, n) == SubSeq(s, IF Len(s) < n THEN 1 ELSE Len(s) - n + 1, Len(s))

\* main.py:188
HistoryEntry(msg) ==
    [role |-> IF "role" \in DOMAIN msg THEN msg.role ELSE "user",
     content |-> IF "content" \in DOMAIN msg THEN msg.content ELSE ""]

\* main.py:176-182: the system prompt, by the context it embeds
SystemPrompt(ctx) ==
    [role |-> "system", context |-> Prefix(ctx, TutorContextLimit)]

\* main.py:185-189
BuildMessages(ctx, previous_messages, question) ==
    <<SystemPrompt(ctx)>>
        \o [k \in 1..Len(Suffix(previous_messages, HistoryWindow)) |->
               HistoryEntry(Suffix(previous_messages, HistoryWindow)[k])]
        \o <<[role |-> "user", content |-> question]>>

NoChatRequest == [lesson_id |-> 0, question |-> "", previous_messages |-> <<>>,
                  topics_covered_so_far |-> <<>>]

NoChatResponse == [kind |-> "none", answer |-> "", topics_covered |-> <<>>,
                   all_topics_covered |-> FALSE]

\* main.py:199-203
ChatResponse(answer_text, req) ==
    [kind |-> "ChatResponse", answer |-> answer_text,
     topics_covered |-> req.topics_covered_so_far,
     all_topics_covered |-> FALSE]

ChatError == [kind |-> "error", answer |-> "", topics_covered |-> <<>>,
              all_topics_covered |-> FALSE]

NoPrompt == [num_questions |-> 0, difficulty |-> "", context |-> <<>>,
             skill_id |-> 0, skill_name |-> "", diff_num |-> 0]

PromptStart ==
    /\ tutor_pc = "idle"
    /\ chat_request = NoChatRequest
    /\ context = <<>>
    /\ messages = <<>>
    /\ chat_response = NoChatResponse
    /\ prompt_context = <<>>
    /\ quiz_prompt = NoPrompt

\* POST /rag/tutor/answer: entry of answer_student_question (main.py:163-165)
ReceiveChat(lesson_id, history) ==
    /\ tutor_pc = "idle"
    /\ chat_request' = [lesson_id |-> lesson_id, question |-> "why",
                        previous_messages |-> history,
                        topics_covered_so_far |-> <<"fractions">>]
    /\ tutor_pc' = "query"
    /\ UNCHANGED <<context, messages, chat_response, prompt_context,
                   quiz_prompt>>
    /\ UNCHANGED <<segVars, quizVars, uploadVars>>

\* main.py:168-172: collection.query raises; nothing catches it.
QueryFails ==
    /\ tutor_pc = "query"
    /\ tutor_pc' = "error"
    /\ chat_response' = ChatError
    /\ UNCHANGED <<chat_request, context, messages, prompt_context,
                   quiz_prompt>>
    /\ UNCHANGED <<segVars, quizVars, uploadVars>>

\* main.py:168-189: retrieval answers; the context is joined and the
\* messages are built.
QueryReturns(documents) ==
    /\ tutor_pc = "query"
    /\ context' = ContextOfResults(documents)
    /\ messages' = BuildMessages(ContextOfResults(documents),
                                 chat_request.previous_messages,
                                 chat_request.question)
    /\ tutor_pc' = "call"
    /\ UNCHANGED <<chat_request, chat_response, prompt_context, quiz_prompt>>
    /\ UNCHANGED <<segVars, quizVars, uploadVars>>

\* main.py:191-203: the oracle answers.
OracleAnswers(answer_text) ==
    /\ tutor_pc = "call"
    /\ chat_response' = ChatResponse(answer_text, chat_request)
    /\ tutor_pc' = "returned"
    /\ UNCHANGED <<chat_request, context, messages, prompt_context,
                   quiz_prompt>>
    /\ UNCHANGED <<segVars, quizVars, uploadVars>>

\* main.py:191-195: the oracle call raises; nothing catches it.
OracleFails ==
    /\ tutor_pc = "call"
    /\ chat_response' = ChatError
    /\ tutor_pc' = "error"
    /\ UNCHANGED <<chat_request, context, messages, prompt_context,
                   quiz_prompt>>
    /\ UNCHANGED <<segVars, quizVars, uploadVars>>

\* main.py:119-138: the chunks retrieved for a lesson, all of one skill, are
\* grouped and the prompt of difficulty d is built from the skill's content.
BuildQuizPrompt(documents, d) ==
    LET metadatas == [k \in 1..Len(documents) |-> Meta(1, 4, "Intro")]
        map == SkillsMap(documents, metadatas, <<>>)
    IN /\ tutor_pc = "idle"
       /\ documents # <<>>
       /\ prompt_context' = TargetSkill(map).content
       /\ quiz_prompt' = PromptFor(TargetSkill(map), d)
       /\ tutor_pc' = "built"
       /\ UNCHANGED <<chat_request, context, messages, chat_response>>
       /\ UNCHANGED <<segVars, quizVars, uploadVars>>

PromptNext ==
    \/ \E l \in LessonIds, h \in Histories : ReceiveChat(l, h)
    \/ QueryFails
    \/ \E documents \in QueryResults : QueryReturns(documents)
    \/ \E a \in {"because", ""} : OracleAnswers(a)
    \/ OracleFails
    \/ \E documents \in DocLists, d \in 1..Len(Difficulties) :
           BuildQuizPrompt(documents, d)

(***************************************************************************)
(* upload_data (upload.py:106-141)                                         *)
(***************************************************************************)
\* upload.py:124
batch_size == 10

\* Python: str(i) for i >= 0, as characters
RECURSIVE Decimal(_)
Decimal(i) ==
    IF i < 10
    THEN <<<<"0", "1", "2", "3", "4", "5", "6", "7", "8", "9">>[i + 1]>>
    ELSE Decimal(i \div 10) \o Decimal(i % 10)

\* upload.py:119: f"cid_{i}"
Cid(i) == <<"c", "i", "d", "_">> \o Decimal(i)

\* Python: s[start:end], 0 <= start < end
Slice(s, start, end) ==
    SubSeq(s, start + 1, IF end < Len(s) THEN end ELSE Len(s))

\* embedding_model.encode(batch).tolist(): one vector per document, here the
\* document it was computed from.
Encode(batch) == [k \in 1..Len(batch) |-> [embedding_of |-> batch[k]]]

\* The k-th chunk parse_markdown returns for the uploaded file: one chunk
\* per skill, four skills a lesson.
UploadChunk(k) ==
    MakeChunk(<<Decimal(k)>>, 1, (k + 3) \div 4, k, DefaultSkillName)

\* upload.py:125
TotalBatches(n) == n \div batch_size + 1

\* Mutant: the loop never breaks on an empty batch.
BatchNeverEmpty(start, n) == FALSE

\* upload.py:131
BatchEmpty(start, n) == start >= n

\* upload.py:133-138: the arguments of collection.add for the batch at start
AddCall(start) ==
    [ids |-> Slice(up_ids, start, start + batch_size),
     documents |-> Slice(up_documents, start, start + batch_size),
     embeddings |-> Encode(Slice(up_documents, start, start + batch_size)),
     metadatas |-> Slice(up_metadatas, start, start + batch_size)]

\* upload.py:11-17: the collection is created anew, nothing is added yet.
UploadStart ==
    /\ up_pc = "idle"
    /\ up_chunks = <<>>
    /\ up_ids = <<>>
    /\ up_documents = <<>>
    /\ up_metadatas = <<>>
    /\ total_batches = 0
    /\ batch_i = 0
    /\ added = <<>>

\* upload.py:109-115: parse_markdown returns n chunks.
StartUpload(n) ==
    /\ up_pc = "idle"
    /\ up_chunks' = [k \in 1..n |-> UploadChunk(k)]
    /\ up_pc' = "collect"
    /\ UNCHANGED <<up_ids, up_documents, up_metadatas, total_batches,
                   batch_i, added>>
    /\ UNCHANGED <<segVars, quizVars, promptVars>>

\* upload.py:118-121: one iteration of the loop over enumerate(chunks)
AppendEntry ==
    /\ up_pc = "collect"
    /\ Len(up_ids) < Len(up_chunks)
    /\ up_ids' = Append(up_ids, Cid(Len(up_ids)))
    /\ up_documents' = Append(up_documents, up_chunks[Len(up_ids) + 1].text)
    /\ up_metadatas' = Append(up_metadatas,
                              up_chunks[Len(up_ids) + 1].metadata)
    /\ UNCHANGED <<up_pc, up_chunks, total_batches, batch_i, added>>
    /\ UNCHANGED <<segVars, quizVars, promptVars>>

\* upload.py:124-128: the loop over chunks is over; the batch loop starts.
BeginBatches ==
    /\ up_pc = "collect"
    /\ Len(up_ids) = Len(up_chunks)
    /\ total_batches' = TotalBatches(Len(up_documents))
    /\ batch_i' = 0
    /\ up_pc' = "batch"
    /\ UNCHANGED <<up_chunks, up_ids, up_documents, up_metadatas, added>>
    /\ UNCHANGED <<segVars, quizVars, promptVars>>

\* upload.py:128-139: one iteration that adds a batch
BatchAdd ==
    /\ up_pc = "batch"
    /\ batch_i < total_batches
    /\ ~BatchEmpty(batch_i * batch_size, Len(up_documents))
    /\ added' = Append(added, AddCall(batch_i * batch_size))
    /\ batch_i' = batch_i + 1
    /\ UNCHANGED <<up_pc, up_chunks, up_ids, up_documents, up_metadatas,
                   total_batches>>
    /\ UNCHANGED <<segVars, quizVars, promptVars>>

\* upload.py:131: nothing is left at start: break
BatchBreak ==
    /\ up_pc = "batch"
    /\ batch_i < total_batches
    /\ BatchEmpty(batch_i * batch_size, Len(up_documents))
    /\ up_pc' = "done"
    /\ UNCHANGED <<up_chunks, up_ids, up_documents, up_metadatas,
                   total_batches, batch_i, added>>
    /\ UNCHANGED <<segVars, quizVars, promptVars>>

\* upload.py:128: range(total_batches) is exhausted
LoopEnds ==
    /\ up_pc = "batch"
    /\ batch_i = total_batches
    /\ up_pc' = "done"
    /\ UNCHANGED <<up_chunks, up_ids, up_documents, up_metadatas,
                   total_batches, batch_i, added>>
    /\ UNCHANGED <<segVars, quizVars, promptVars>>

UploadNext ==
    \/ \E n \in 0..MaxChunks : StartUpload(n)
    \/ AppendEntry
    \/ BeginBatches
    \/ BatchAdd
    \/ BatchBreak
    \/ LoopEnds

(***************************************************************************)
(* Specifications                                                          *)
(***************************************************************************)
Init == SegStart /\ QuizStart /\ PromptStart /\ UploadStart

\* parse_markdown run on one document
SegSpec == Init /\ [][SegNext]_vars

\* one request to a quiz endpoint
QuizSpec == Init /\ [][QuizNext]_vars

\* Prompt building on long contexts, by both builders.
PromptSpec == Init /\ [][PromptNext]_vars

\* One run of upload_data; the script runs to its end without waiting for
\* anything, so every step that can be taken is taken.
UploadSpec == Init /\ [][UploadNext]_vars /\ WF_vars(UploadNext)

(***************************************************************************)
(* Segmenter claims                                                        *)
(***************************************************************************)
\* Python: s.split(sep), sep a single character
RECURSIVE SplitAt(_, _)
SplitAt(s, sep) ==
    IF \A i \in 1..Len(s) : s[i] # sep THEN <<s>>
    ELSE LET i == CHOOSE j \in 1..Len(s) :
                      s[j] = sep /\ \A k \in 1..(j - 1) : s[k] # sep
         IN <<SubSeq(s, 1, i - 1)>> \o SplitAt(SubSeq(s, i + 1, Len(s)), sep)

\* The lines of all chunks, in chunk order.
RECURSIVE AllChunkLines(_)
AllChunkLines(cs) ==
    IF cs = <<>> THEN <<>>
    ELSE SplitAt(Head(cs).text, NL) \o AllChunkLines(Tail(cs))

\* A raw line without its line terminator.
RawContent(raw) ==
    IF raw # <<>> /\ raw[Len(raw)] = NL THEN SubSeq(raw, 1, Len(raw) - 1) ELSE raw

IsNonBlank(content) == \E i \in 1..Len(content) : content[i] \notin Whitespace

\* The document's non-blank lines, in order, as written in the document.
NonBlankLines(doc) ==
    LET contents == [i \in 1..Len(doc) |-> RawContent(doc[i])]
    IN SelectSeq(contents, IsNonBlank)

\* A line as the segmenter stores it: stripped, and on a skill-boundary line
\* every sentinel replaced by the sub-heading token.
StoredForm(content) ==
    LET t == Strip(content) IN
    IF StartsWith(t, SENTINEL) THEN Replace(t, SENTINEL, SUBHEADING) ELSE t

StoredLines(doc) ==
    LET nb == NonBlankLines(doc) IN [i \in 1..Len(nb) |-> StoredForm(nb[i])]

IsMarker(raw) ==
    StartsWith(Strip(raw), HASH_SP) \/ StartsWith(Strip(raw), SENTINEL)

\* C7 as stated: the lines of the returned chunks are exactly the document's
\* non-blank lines, in order, none lost, duplicated or altered.
C7_CoverageVerbatim ==
    seg_pc = "done" => AllChunkLines(chunks) = NonBlankLines(lines)

\* C7 amended: the lines of the returned chunks are exactly the document's
\* non-blank lines in order, none lost or duplicated, each stripped of its
\* leading and trailing whitespace and, on a skill-boundary line, with every
\* sentinel replaced by the sub-heading token.
C7_CoverageStored ==
    seg_pc = "done" => AllChunkLines(chunks) = StoredLines(lines)

\* A returned document with a blank line, a padded line and a skill line,
\* split over at least two chunks.
C7_Witness ==
    /\ seg_pc = "done"
    /\ Len(chunks) >= 2
    /\ \E i \in 1..Len(lines) : ~IsNonBlank(RawContent(lines[i]))
    /\ \E i \in 1..Len(lines) : lines[i] = <<" ", "y", " ", "\n">>
    /\ \E i \in 1..Len(lines) : StartsWith(Strip(lines[i]), SENTINEL)

ChunkIdsMonotone(cs) ==
    \A i \in 1..(Len(cs) - 1) :
        /\ cs[i].metadata.skill_id <= cs[i + 1].metadata.skill_id
        /\ cs[i].metadata.lesson_id <= cs[i + 1].metadata.lesson_id

\* C8: at every step of the scan current_lesson and current_skill_id do not
\* decrease, and in the emitted chunks skill_id and lesson_id are each
\* non-decreasing from one chunk to the next.
C8_MonotonicIds ==
    [][ /\ current_lesson' >= current_lesson
        /\ current_skill_id' >= current_skill_id
        /\ ChunkIdsMonotone(chunks') ]_vars

\* Chunks of two lessons and three skills have been emitted.
C8_Witness ==
    /\ Len(chunks) >= 3
    /\ chunks[1].metadata.lesson_id < chunks[Len(chunks)].metadata.lesson_id
    /\ chunks[1].metadata.skill_id < chunks[2].metadata.skill_id
    /\ chunks[2].metadata.skill_id < chunks[Len(chunks)].metadata.skill_id

\* C9: no emitted chunk has an empty text.
C9_NoEmptyChunks ==
    \A i \in 1..Len(chunks) : chunks[i].text # <<>>

\* A returned document that starts with a marker, has two markers in a row
\* and ends with a marker.
C9_Witness ==
    /\ seg_pc = "done"
    /\ Len(lines) >= 3
    /\ IsMarker(lines[1])
    /\ IsMarker(lines[2])
    /\ IsMarker(lines[Len(lines)])
    /\ Len(chunks) >= 3

HasNonBlank(doc) == \E i \in 1..Len(doc) : IsNonBlank(RawContent(doc[i]))

NoMarker(doc) == \A i \in 1..Len(doc) : ~IsMarker(doc[i])

IsDefaultChunk(c) ==
    /\ c.metadata.lesson_id = 0
    /\ c.metadata.skill_id = 0
    /\ c.metadata.skill_name = DefaultSkillName

\* The loop has no reject path: wherever the scan stands, the end of the
\* input can be taken and the function returns.
ScanNeverStuck == seg_pc = "scan" => ENABLED EndOfInput

\* C10 as stated: every non-empty document yields at least one chunk, and a
\* document with no heading marker yields exactly one chunk, in the default
\* state.
C10_TotalityNonEmpty ==
    /\ ScanNeverStuck
    /\ seg_pc = "done" /\ lines # <<>> =>
           /\ Len(chunks) >= 1
           /\ NoMarker(lines) => Len(chunks) = 1 /\ IsDefaultChunk(chunks[1])

\* C10 amended: the scan can always end and return; every document with at least one
\* non-blank line yields at least one chunk; and such a document with no
\* marker line yields exactly one chunk, in the default state.
C10_TotalityNonBlank ==
    /\ ScanNeverStuck
    /\ seg_pc = "done" /\ HasNonBlank(lines) =>
           /\ Len(chunks) >= 1
           /\ NoMarker(lines) => Len(chunks) = 1 /\ IsDefaultChunk(chunks[1])

\* A returned document of plain and malformed-marker lines only.
C10_Witness ==
    /\ seg_pc = "done"
    /\ Len(lines) >= 3
    /\ NoMarker(lines)
    /\ \E i \in 1..Len(lines) : lines[i] = <<"#", "C", "\n">>
    /\ \E i \in 1..Len(lines) : ~IsNonBlank(RawContent(lines[i]))
    /\ Len(chunks) = 1

\* A raw line that is a lesson heading, a skill boundary.
IsLessonRaw(raw) == StartsWith(Strip(raw), HASH_SP)
IsSkillRaw(raw) == ~IsLessonRaw(raw) /\ StartsWith(Strip(raw), SENTINEL)

\* The lines that open a chunk: every marker line, and the first non-blank
\* line when it is no marker.
OpenerSet(doc) ==
    { i \in 1..Len(doc) :
        \/ IsMarker(doc[i])
        \/ /\ IsNonBlank(RawContent(doc[i]))
           /\ \A j \in 1..(i - 1) : ~IsNonBlank(RawContent(doc[j])) }

\* The j-th opening line.
Opener(doc, j) ==
    CHOOSE i \in OpenerSet(doc) :
        Cardinality({k \in OpenerSet(doc) : k < i}) = j - 1

\* The ids and the name a line sets when it opens a chunk.
LessonAt(doc, i) == Cardinality({k \in 1..i : IsLessonRaw(doc[k])})
SkillAt(doc, i) == Cardinality({k \in 1..i : IsMarker(doc[k])})
NameAt(doc, i) ==
    IF IsLessonRaw(doc[i]) THEN Strip(Replace(Strip(doc[i]), <<"#">>, <<>>))
    ELSE IF IsSkillRaw(doc[i])
         THEN Strip(Replace(Strip(doc[i]), SENTINEL, <<>>))
         ELSE DefaultSkillName

ChunksOpenedRight(cs, doc) ==
    \A j \in 1..Len(cs) :
        /\ j <= Cardinality(OpenerSet(doc))
        /\ LET i == Opener(doc, j) IN
           /\ cs[j].metadata.lesson_id = LessonAt(doc, i)
           /\ cs[j].metadata.skill_id = SkillAt(doc, i)
           /\ cs[j].metadata.skill_name = NameAt(doc, i)
           /\ SplitAt(cs[j].text, NL)[1] = StoredForm(RawContent(doc[i]))

\* C14: a marker line scanned with a non-empty buffer flushes one chunk that
\* holds the buffer and carries the lesson id, skill id and skill name in
\* force before the marker's update; the marker line (a skill line with its
\* sentinel replaced) becomes the whole new buffer; and every emitted chunk
\* carries the ids and the name set by the line that opens it, the defaults
\* when that line is no marker.
C14_PreUpdateTagging ==
    [][ LET n == Len(lines')
            raw == lines'[n]
        IN /\ (n = Len(lines) + 1 /\ IsMarker(raw) /\ current_text # <<>>) =>
                /\ Len(chunks') = Len(chunks) + 1
                /\ SubSeq(chunks', 1, Len(chunks)) = chunks
                /\ chunks'[Len(chunks')].text = Join(current_text, NL)
                /\ chunks'[Len(chunks')].metadata.lesson_id = current_lesson
                /\ chunks'[Len(chunks')].metadata.skill_id = current_skill_id
                /\ chunks'[Len(chunks')].metadata.skill_name = current_skill_name
                /\ current_text' = <<StoredForm(RawContent(raw))>>
           /\ ChunksOpenedRight(chunks', lines') ]_vars

\* A default chunk, then a lesson chunk, then a skill chunk of that lesson.
C14_Witness ==
    /\ Len(chunks) >= 3
    /\ chunks[1].metadata.skill_id = 0
    /\ chunks[2].metadata.lesson_id = 1
    /\ chunks[2].metadata.skill_id = 1
    /\ chunks[3].metadata.lesson_id = 1
    /\ chunks[3].metadata.skill_id = 2
    /\ chunks[3].metadata.skill_name = <<"S">>

\* C15: a skill-boundary line adds exactly 1 to current_skill_id and leaves
\* current_lesson and current_unit alone; a heading line adds exactly 1 to
\* both counters and leaves current_unit alone; any other line leaves the
\* counters, the name, the unit and the emitted chunks alone, a non-blank one
\* only appending itself to the buffer.
C15_ScanFrame ==
    [][ LET n == Len(lines')
            raw == lines'[n]
        IN n = Len(lines) + 1 =>
             /\ current_unit' = current_unit
             /\ IsSkillRaw(raw) =>
                    /\ current_skill_id' = current_skill_id + 1
                    /\ current_lesson' = current_lesson
             /\ IsLessonRaw(raw) =>
                    /\ current_skill_id' = current_skill_id + 1
                    /\ current_lesson' = current_lesson + 1
             /\ ~IsMarker(raw) =>
                    /\ current_skill_id' = current_skill_id
                    /\ current_lesson' = current_lesson
                    /\ current_skill_name' = current_skill_name
                    /\ chunks' = chunks
                    /\ current_text' =
                           IF IsNonBlank(RawContent(raw))
                           THEN Append(current_text, Strip(raw))
                           ELSE current_text ]_vars

\* A heading, a skill boundary, a blank line and a text line were scanned.
C15_Witness ==
    /\ Len(lines) = 4
    /\ IsLessonRaw(lines[1])
    /\ IsSkillRaw(lines[2])
    /\ ~IsNonBlank(RawContent(lines[3]))
    /\ ~IsMarker(lines[4]) /\ IsNonBlank(RawContent(lines[4]))
    /\ current_lesson = 1
    /\ current_skill_id = 2
    /\ Len(current_text) = 2

\* The lines of the document before its first marker line.
BeforeFirstMarker(doc) ==
    IF \E i \in 1..Len(doc) : IsMarker(doc[i])
    THEN SubSeq(doc, 1, (CHOOSE i \in 1..Len(doc) :
                            IsMarker(doc[i])
                            /\ \A j \in 1..(i - 1) : ~IsMarker(doc[j])) - 1)
    ELSE doc

\* C18: skill_id strictly increases from each emitted chunk to the next, so
\* no two chunks share a skill id; every chunk has skill_id >= lesson_id; and
\* a chunk tagged skill_id 0 / lesson_id 0 is the first chunk and holds
\* exactly the text before the first marker line.
C18_OneChunkPerSkill ==
    /\ \A i \in 1..(Len(chunks) - 1) :
           chunks[i].metadata.skill_id < chunks[i + 1].metadata.skill_id
    /\ \A i \in 1..Len(chunks) :
           /\ chunks[i].metadata.skill_id >= chunks[i].metadata.lesson_id
           /\ chunks[i].metadata.skill_id = 0 =>
                  /\ i = 1
                  /\ chunks[i].metadata.lesson_id = 0
                  /\ SplitAt(chunks[i].text, NL)
                         = StoredLines(BeforeFirstMarker(lines))

\* Text before the first marker, then a skill boundary before any heading,
\* then a heading: three chunks returned.
C18_Witness ==
    /\ seg_pc = "done"
    /\ Len(chunks) = 3
    /\ chunks[1].metadata.skill_id = 0
    /\ chunks[2].metadata.lesson_id = 0
    /\ chunks[2].metadata.skill_id = 1
    /\ chunks[3].metadata.lesson_id = 1

(***************************************************************************)
(* Prompt truncation                                                       *)
(***************************************************************************)
\* The first n characters of a text, all of it when it is shorter.
FirstChars(text, n) == [i \in 1..(IF Len(text) < n THEN Len(text) ELSE n) |-> text[i]]

QuizPromptCut(n) ==
    tutor_pc = "built" => quiz_prompt.context = FirstChars(prompt_context, n)

TutorPromptCut(n) ==
    messages # <<>> => messages[1].context = FirstChars(context, n)

\* C13 as stated: the quiz prompt and the tutor prompt both embed exactly
\* the first 2500 characters of the context they are given, all of it when
\* it has at most 2500.
C13_TruncationAt2500 == QuizPromptCut(2500) /\ TutorPromptCut(2500)

\* C13 amended: the quiz prompt embeds exactly the first 2500 characters of
\* its context and the tutor prompt exactly the first 2000 of its own; a
\* context within the cut appears in full and nothing past the cut appears.
C13_TruncationPerPrompt == QuizPromptCut(2500) /\ TutorPromptCut(2000)

\* The tutor prompt was built from a context of 2201 characters, between the
\* two cuts, and embeds its first 2000.
C13_Witness ==
    /\ tutor_pc = "call"
    /\ Len(context) = 2201
    /\ Len(messages[1].context) = 2000
    /\ Len(messages) = 5

(***************************************************************************)
(* Batched upload                                                          *)
(***************************************************************************)
\* The field f of all add calls received so far, concatenated in call order.
RECURSIVE AllAdded(_, _)
AllAdded(calls, f) ==
    IF calls = <<>> THEN <<>> ELSE Head(calls)[f] \o AllAdded(Tail(calls), f)

\* Every add call carries the same number, between 1 and 10, of ids,
\* documents, embeddings and metadatas.
BatchesWellFormed ==
    \A k \in 1..Len(added) :
        /\ Len(added[k].ids) \in 1..10
        /\ Len(added[k].documents) = Len(added[k].ids)
        /\ Len(added[k].embeddings) = Len(added[k].ids)
        /\ Len(added[k].metadatas) = Len(added[k].ids)

\* What the store has been handed is a prefix of the chunks, in order, the
\* chunk at index i under the id cid_i with its own text and metadata.
AddedInOrder ==
    /\ Len(AllAdded(added, "ids")) <= Len(up_chunks)
    /\ \A k \in 1..Len(AllAdded(added, "ids")) :
           /\ AllAdded(added, "ids")[k] = Cid(k - 1)
           /\ AllAdded(added, "documents")[k] = up_chunks[k].text
           /\ AllAdded(added, "metadatas")[k] = up_chunks[k].metadata
           /\ AllAdded(added, "embeddings")[k].embedding_of = up_chunks[k].text
    /\ \A j, k \in 1..Len(AllAdded(added, "ids")) :
           j # k => AllAdded(added, "ids")[j] # AllAdded(added, "ids")[k]

UploadSafe ==
    /\ BatchesWellFormed
    /\ AddedInOrder
    /\ up_pc = "done" => Len(AllAdded(added, "ids")) = Len(up_chunks)

\* C20: for any number of chunks, every add call carries between 1 and 10
\* chunks; the calls hand the chunks to the store in chunk order, the chunk
\* at index i under the distinct id cid_i with its own text and metadata;
\* when upload_data ends every chunk has been handed over exactly once; and
\* upload_data does end.
C20_BatchedUploadExactlyOnce == []UploadSafe /\ <>(up_pc = "done")

\* Twenty chunks were uploaded in two batches of ten and the loop broke on
\* the third index.
C20_Witness ==
    /\ up_pc = "done"
    /\ Len(up_chunks) = 20
    /\ Len(added) = 2
    /\ batch_i = 2
    /\ total_batches = 3

(***************************************************************************)
(* Generation and assembly claims                                          *)
(***************************************************************************)
\* The raw items of the response the running call received last.
LastRawItems == QuestionsOf(OracleResponses[gen.last_response].data).a

\* The GeneratedQuestion schema of the data model.
FullSchema(q) ==
    /\ q.correct_answer \in 0..3
    /\ Len(q.options) = 4
    /\ q.difficulty \in {1, 2, 3}
    /\ q.type \in {"multiple_choice", "true_false", "fill_in_blank"}

RawInSchema(raw) ==
    /\ raw.t = "obj"
    /\ Validates(raw)
    /\ raw.o.correct_answer.i \in 0..3
    /\ Len(raw.o.options.a) = 4
    /\ raw.o.difficulty.i \in {1, 2, 3}

\* C1: every item generate returns satisfies the full GeneratedQuestion
\* schema, there are at most as many as raw items, and a raw item that
\* violates the schema has no item in the output.
C1_SchemaGate ==
    gen.status = "returned" =>
        /\ \A k \in 1..Len(gen.result) : FullSchema(gen.result[k])
        /\ Len(gen.result) <= Len(LastRawItems)
        /\ Len(gen.result) = Len(SelectSeq(LastRawItems, RawInSchema))

\* A step in which the oracle is invoked.
Invoked == gen'.attempt = gen.attempt + 1

\* C2: a call makes at most 3 oracle invocations; a transport or JSON parse
\* failure before the third attempt leaves the call running for a new
\* attempt; an attempt that succeeds ends the call with the validated output
\* of that attempt, after one invocation per earlier failure plus one; and
\* no invocation is made once the call has ended.
C2_RetryWithinBudget ==
    [][ /\ gen'.attempt <= 3
        /\ Invoked =>
             LET r == OracleResponses[gen'.last_response] IN
             /\ gen.status = "running"
             /\ (r.kind = "transport_error" \/ ~r.is_json) /\ gen'.attempt < 3
                    => gen'.status = "running"
             /\ AttemptOutcome(r).ok =>
                    /\ gen'.status = "returned"
                    /\ gen'.result = AttemptOutcome(r).value
                    /\ gen'.attempt = Len(gen'.errors) + 1 ]_vars

\* Attempts 1 and 2 failed, one by transport and one by parsing, attempt 3
\* returned questions.
C2_Witness ==
    /\ gen.status = "returned"
    /\ gen.attempt = 3
    /\ gen.errors = <<"APIConnectionError", "JSONDecodeError">>
    /\ Len(gen.result) = 1

\* C3 as stated: when all 3 attempts fail there is no fourth invocation, no
\* item sequence, and the failure propagated is the one the third attempt
\* raised.
C3_ExhaustionLastFailure ==
    /\ gen.attempt <= 3
    /\ Len(gen.errors) = 3 =>
           /\ gen.status = "raised"
           /\ gen.result = <<>>
           /\ gen.error.type = gen.errors[3]

\* C3 amended: when all 3 attempts fail there is no fourth invocation, no
\* item sequence, and the failure propagated is a RetryError that carries
\* the failure the third attempt raised.
C3_ExhaustionRetryError ==
    /\ gen.attempt <= 3
    /\ Len(gen.errors) = 3 =>
           /\ gen.status = "raised"
           /\ gen.result = <<>>
           /\ gen.error.type = "RetryError"
           /\ gen.error.cause = gen.errors[3]

\* Three attempts failed, the first and the last in different ways.
C3_Witness ==
    /\ gen.status = "raised"
    /\ gen.attempt = 3
    /\ gen.errors[1] = "APIConnectionError"
    /\ gen.errors[3] = "TypeError"

NonEmptyLessons(ls) ==
    SelectSeq(ls, LAMBDA l : StoreGet(l).ids # <<>>)

\* C4: when generate has failed for a pair, the next step keeps all_questions
\* as it is and moves the loops where a success would move them (the next
\* difficulty of the lesson, with a fresh generate call on its prompt, or the
\* next lesson); and a request that returns has called generate three times
\* for every lesson that has chunks.
C4_BestEffort ==
    [][ /\ quiz_pc = "generate" /\ gen.status \in {"raised", "returned"} =>
             /\ gen.status = "raised" => all_questions' = all_questions
             /\ IF diff_idx < 3
                THEN /\ quiz_pc' = "generate"
                     /\ lesson_idx' = lesson_idx
                     /\ diff_idx' = diff_idx + 1
                     /\ gen' = FreshGen
                     /\ Len(prompts') = Len(prompts) + 1
                     /\ skill_data' = skill_data
                ELSE /\ quiz_pc' = "lesson"
                     /\ lesson_idx' = lesson_idx + 1
        /\ quiz_pc' = "returned" =>
             Len(prompts') = 3 * Len(NonEmptyLessons(request'.lessons)) ]_vars

\* generate has failed for the second difficulty of the first of two
\* lessons, after questions were accumulated from the first difficulty.
C4_Witness ==
    /\ quiz_pc = "generate"
    /\ gen.status = "raised"
    /\ Len(request.lessons) = 2
    /\ lesson_idx = 1
    /\ diff_idx = 2
    /\ all_questions # <<>>

\* C5: every returned QuizResult has success = true and total_questions
\* equal to the length of questions, which are the questions accumulated.
C5_ResultInvariant ==
    quiz_pc = "returned" =>
        /\ response.kind = "QuizResponse"
        /\ response.success = TRUE
        /\ response.total_questions = Len(response.questions)
        /\ response.questions = all_questions

\* A result for a lesson without chunks and a lesson with chunks, whose
\* three generate calls gave 1, 4 and 0 questions.
C5_Witness ==
    /\ quiz_pc = "returned"
    /\ request.lessons = <<2, 1>>
    /\ request.questions_per_lesson = 4
    /\ response.total_questions = 5

\* C11: an item whose only defect is a negative correct_answer is kept with
\* correct_answer rewritten to 0 and every other field as the oracle gave it;
\* a non-negative correct_answer is kept as it is.
C11_ClampNotReject ==
    gen.status = "returned" =>
        LET valid == SelectSeq(LastRawItems, Validates) IN
        /\ Len(gen.result) = Len(valid)
        /\ \A k \in 1..Len(valid) :
               LET raw == valid[k].o
                   q == gen.result[k]
               IN /\ q.correct_answer = IF raw.correct_answer.i < 0 THEN 0
                                        ELSE raw.correct_answer.i
                  /\ q.question_text = raw.question_text.s
                  /\ Len(q.options) = Len(raw.options.a)
                  /\ \A j \in 1..Len(q.options) :
                         q.options[j] = raw.options.a[j].s
                  /\ q.hint = raw.hint.s
                  /\ q.bottom_hint = raw.bottom_hint.s
                  /\ q.difficulty = raw.difficulty.i
                  /\ q.type = raw.type.s
                  /\ q.skill_id = raw.skill_id.i

\* The response with correct_answer -5 and correct_answer 7 was returned.
C11_Witness ==
    /\ gen.status = "returned"
    /\ Len(gen.result) = 4
    /\ LastRawItems[1].o.correct_answer.i < 0
    /\ gen.result[1].correct_answer = 0
    /\ gen.result[2].correct_answer = 7

\* An item the coercion accepts: an object that validates.
Coercible(item) == item.t = "obj" /\ Validates(item)

\* C12: an attempt whose response parses as a JSON object ends the call at
\* that attempt, without another invocation, returning the items that can be
\* coerced, in order; an item that cannot be coerced, for whatever reason,
\* is dropped without aborting the batch.
C12_ItemFailureLocal ==
    [][ Invoked =>
          LET r == OracleResponses[gen'.last_response] IN
          (r.kind = "content" /\ r.is_json /\ r.data.t = "obj") =>
              /\ gen'.status = "returned"
              /\ QuestionsOf(r.data).t = "arr" =>
                     Len(gen'.result)
                         = Len(SelectSeq(QuestionsOf(r.data).a, Coercible)) ]_vars

\* The lesson and the difficulty of the k-th generate call of a request
\* for the lessons ls.
PairAt(ls, k) ==
    [lesson |-> NonEmptyLessons(ls)[((k - 1) \div 3) + 1],
     difficulty |-> <<"easy", "medium", "hard">>[((k - 1) % 3) + 1]]

SkillIdsOf(lesson) ==
    {StoreGet(lesson).metadatas[i].skill_id :
         i \in 1..Len(StoreGet(lesson).metadatas)}

\* C16: generate calls are made one after the other, a new one only when the
\* one before has ended; the k-th call is for the lessons that have chunks
\* taken in request order, each with easy, medium, hard in that order; a
\* lesson without chunks gets no call; all_questions grows only by appending
\* the items a call returned, and the response carries it as it stands.
C16_GenerationOrder ==
    [][ /\ Len(prompts') # Len(prompts) =>
               /\ Len(prompts') = Len(prompts) + 1
               /\ SubSeq(prompts', 1, Len(prompts)) = prompts
               /\ gen.status \in {"idle", "returned", "raised"}
               /\ gen' = FreshGen
        /\ \A k \in 1..Len(prompts') :
               /\ k <= 3 * Len(NonEmptyLessons(request'.lessons))
               /\ prompts'[k].difficulty = PairAt(request'.lessons, k).difficulty
               /\ prompts'[k].skill_id
                      \in SkillIdsOf(PairAt(request'.lessons, k).lesson)
        /\ (quiz_pc # "idle" /\ all_questions' # all_questions) =>
               /\ gen.status = "returned"
               /\ all_questions' = all_questions \o gen.result
        /\ quiz_pc' = "returned" =>
               /\ response'.questions = all_questions
               /\ Len(prompts') = 3 * Len(NonEmptyLessons(request'.lessons)) ]_vars

\* Lesson 3 then lesson 1 were asked for; six calls were made, the first
\* three for lesson 3, and calls of both lessons returned items.
C16_Witness ==
    /\ quiz_pc = "returned"
    /\ request.lessons = <<3, 1>>
    /\ Len(prompts) = 6
    /\ prompts[1].skill_id = 7
    /\ prompts[4].skill_id = 4
    /\ Len(response.questions) = 5
    /\ Len(response.questions[1].options) = 4
    /\ response.questions[1].correct_answer = 1
    /\ response.questions[2].correct_answer = 0

\* The concatenation of "\n" + document over the chunks of one skill, in
\* retrieval order.
RECURSIVE ContextOf(_, _, _)
ContextOf(documents, metadatas, skill) ==
    IF documents = <<>> THEN <<>>
    ELSE (IF Head(metadatas).skill_id = skill THEN <<NL>> \o Head(documents)
          ELSE <<>>) \o ContextOf(Tail(documents), Tail(metadatas), skill)

C19_RequestedCountIgnored ==
    /\ \A k \in 1..Len(prompts) : prompts[k].num_questions = 3
    /\ Len(prompts) <= 3 * Len(NonEmptyLessons(request.lessons))
    /\ quiz_pc = "returned" =>
           /\ Len(prompts) = 3 * Len(NonEmptyLessons(request.lessons))
           /\ response.questions = all_questions
           /\ response.total_questions = Len(all_questions)

\* A request for 4 questions per lesson on one lesson returned 12.
C19_Witness ==
    /\ quiz_pc = "returned"
    /\ request.lessons = <<1>>
    /\ request.questions_per_lesson = 4
    /\ response.total_questions = 12

\* C6: a request to generate_initial_quiz never ends in an error, whatever
\* retrieval and the oracle do.
C6_NoErrorToCaller == quiz_pc # "error" /\ response.kind # "error"

====
